---- MODULE Spec2Model ----
(***************************************************************************)
(* State-machine model of the Cookify front end (frontend/src/App.tsx,     *)
(* components/ProfileCard.tsx, api.ts): the session gatekeeper, the        *)
(* saved-recipe reconciler and the pantry synchronizer, together with the  *)
(* remote store they talk to.                                              *)
(*                                                                         *)
(* Every async handler is split where the code awaits: the part before the *)
(* await issues the request (X_call), the part after it runs when the      *)
(* promise settles (X_resolved / X_rejected).  Each part runs atomically,  *)
(* as one task of the JavaScript event loop does, and a React effect runs  *)
(* in the step that changes its dependency.                                *)
(*                                                                         *)
(* Timestamps that no handler reads back (created_at, added_at) and the    *)
(* display-only recipe fields (title, image, tags, ...) are not carried.   *)
(***************************************************************************)
EXTENDS Naturals, Sequences, FiniteSets

(* ------------------------------ bounds -------------------------------- *)

\* Requests that may be in flight at the same time.
MaxInFlight == 2
\* Logins per run after startup (each login mints a fresh token).
MaxLogins == 1
\* Length cap of the local saved-recipe list (a re-save appends a duplicate).
MaxSaved == 2
\* Last value of the millisecond clock read by Date.now().
MaxNow == 1

(* ------------------------------ inputs -------------------------------- *)

\* Recipes the user can act on: a catalog recipe (interface Recipe, which has
\* no is_ai_generated key) and an AI recipe (interface AIRecipe).
RecipeInputs ==
    { [id |-> "r1", hasAiKey |-> FALSE, is_ai_generated |-> FALSE],
      [id |-> "r2", hasAiKey |-> TRUE,  is_ai_generated |-> TRUE] }

RecipeIds == { r.id : r \in RecipeInputs }

\* The same with a record that carries the is_ai_generated key with the value
\* false (AIRecipe declares the key as a boolean).
RecipeRecords ==
    RecipeInputs \cup { [id |-> "r3", hasAiKey |-> TRUE, is_ai_generated |-> FALSE] }

\* Pantry names (two of them differ only in case) and free-form quantities.
Names == { "Eggs", "eggs" }
Quantities == { "6", "12" }
Dates == { "2026-01-01" }

\* String.prototype.toLowerCase on the names above.
toLowerCase(s) == IF s = "Eggs" THEN "eggs" ELSE s

\* Absent values: null token, undefined / null / '' fields.
NoToken == 0
NoDate == ""
NullDateTime == [date |-> "", time |-> ""]

\* new Date("YYYY-MM-DD").toISOString(): a date-only string is UTC midnight.
toISOString(d) == [date |-> d, time |-> "T00:00:00.000Z"]
\* expiry_date.slice(0, 10): the calendar date of an ISO date-time.
slice10(dt) == dt.date

(* ------------------------------- state -------------------------------- *)

VARIABLES
    token,          \* localStorage 'token' (NoToken when absent)
    validTokens,    \* tokens the server currently accepts
    minted,         \* tokens issued so far (the next login mints minted + 1)
    isLoggedIn, isLoading, activeTab,
    savedRecipes, savedRecipeIds, pantry,
    srvSaved, srvPantry,        \* the remote store's saved recipes and pantry
    calls,          \* requests in flight, in call order
    now,            \* Date.now()
    last            \* the handler completion that led to this state, if one
                    \* did (observation only)

vars == << token, validTokens, minted, isLoggedIn, isLoading, activeTab,
           savedRecipes, savedRecipeIds, pantry, srvSaved, srvPantry,
           calls, now, last >>

session == << token, validTokens, minted, isLoggedIn, isLoading, activeTab >>
savedState == << savedRecipes, savedRecipeIds >>
server == << srvSaved, srvPantry >>

\* An event: the handler that completed, its argument (a recipe id or a
\* pantry name), whether its request succeeded, how the promise the handler
\* returned to its caller settled, and what the handler found: hit counts the
\* local entries its test matched (for a logout, 1 when a session was open),
\* exact those among them whose key is the argument letter for letter.
NoEvent ==
    [op |-> "none", arg |-> "", req |-> "none", promise |-> "none",
     hit |-> 0, exact |-> 0]
Event(op, arg, req, promise, hit, exact) ==
    [op |-> op, arg |-> arg, req |-> req, promise |-> promise,
     hit |-> hit, exact |-> exact]
Count(list, Test(_)) == Len(SelectSeq(list, Test))
\* Record the event of this step (NoEvent for a step that completes no
\* handler).
Log(e) == last' = e

(* ------------------------- requests in flight ------------------------- *)

NoItem == [name |-> "", quantity |-> "", expiry_date |-> NullDateTime]
NoRecipe == [id |-> "", hasAiKey |-> FALSE, is_ai_generated |-> FALSE]
NoSaveData == [source |-> "", is_ai_generated |-> FALSE]
NoBody == [items |-> << >>, item |-> NoItem]

\* A request as ApiClient.request sends it: the bearer token is read from
\* localStorage when the call is made.  st is "sent" until the server has
\* handled the request, then "replied" with the response body in res.
NewCall(op, tok, recipe, data, item) ==
    [op |-> op, tok |-> tok, recipe |-> recipe, data |-> data,
     item |-> item, st |-> "sent", res |-> NoBody]

RemoveAt(s, i) == SubSeq(s, 1, i - 1) \o SubSeq(s, i + 1, Len(s))

Map(s, F(_)) == [i \in 1..Len(s) |-> F(s[i])]

(* ---------------------- Remote Store Client (api.ts) ------------------- *)

\* Messages of the errors a request can end with.
FetchFailed == "Failed to fetch"
InvalidAuth == "Invalid authentication credentials"
JsonSyntaxError == "Unexpected end of JSON input"

\* What the transport can do with a call: fetch() itself throws (a TypeError,
\* which is an Error), the server answers with a non-success status and a
\* JSON error body, or it answers with success and a body that parses or not.
\* The 401 of a token the server no longer accepts carries InvalidAuth.
Transport(c) ==
    IF c.st = "sent"
    THEN { [kind |-> "throw", isError |-> TRUE, message |-> FetchFailed,
            ok |-> FALSE, detail |-> "", parses |-> FALSE],
           [kind |-> "response", isError |-> FALSE, message |-> "",
            ok |-> FALSE, detail |-> "", parses |-> TRUE] }
         \cup
         ( IF c.tok \in validTokens THEN {}
           ELSE { [kind |-> "response", isError |-> FALSE, message |-> "",
                   ok |-> FALSE, detail |-> InvalidAuth, parses |-> TRUE] } )
    ELSE { [kind |-> "response", isError |-> FALSE, message |-> "",
            ok |-> TRUE, detail |-> "", parses |-> TRUE],
           [kind |-> "response", isError |-> FALSE, message |-> "",
            ok |-> TRUE, detail |-> "", parses |-> FALSE] }

Resolved == [settled |-> "resolved", message |-> ""]
Rejected(m) == [settled |-> "rejected", message |-> m]

\* ApiClient.request: how one transport outcome settles the promise.
request(t) ==
    IF t.kind = "throw"
    THEN IF t.isError THEN Rejected(t.message) ELSE Rejected("Network error")
    ELSE IF ~t.ok
         THEN IF ~t.parses THEN Rejected(JsonSyntaxError)
              ELSE Rejected(IF t.detail # "" THEN t.detail ELSE "Request failed")
         ELSE IF ~t.parses THEN Rejected(JsonSyntaxError)
              ELSE Resolved

\* The call at position i is awaited by handler op and its request succeeds.
Succeeds(i, op) ==
    /\ i \in 1..Len(calls)
    /\ calls[i].op = op
    /\ \E t \in Transport(calls[i]) : request(t).settled = "resolved"

\* The error messages the call at position i can be rejected with.
Failures(i) ==
    { request(t).message :
        t \in { u \in Transport(calls[i]) : request(u).settled = "rejected" } }

(* ----------------------- React effect on isLoggedIn -------------------- *)

\* useEffect(..., [isLoggedIn]): runs in the step that changes isLoggedIn;
\* cs are the calls left in flight by the rest of the step.  The two fetches
\* read the token from localStorage as it is after the step.
useEffect_isLoggedIn(cs) ==
    IF isLoggedIn' = isLoggedIn
    THEN calls' = cs /\ UNCHANGED << savedRecipes, savedRecipeIds, pantry >>
    ELSE IF isLoggedIn'
         THEN /\ calls' = cs \o
                    << NewCall("fetchSavedRecipes", token', NoRecipe, NoSaveData, NoItem),
                       NewCall("fetchPantry", token', NoRecipe, NoSaveData, NoItem) >>
              /\ UNCHANGED << savedRecipes, savedRecipeIds, pantry >>
         ELSE /\ calls' = cs
              /\ savedRecipes' = << >>
              /\ savedRecipeIds' = {}
              /\ pantry' = << >>

(* --------------------------- Session Gatekeeper ------------------------ *)

\* checkAuth up to its await: with a token it requests the profile, without
\* one it only ends the loading state.  The isLoggedIn effect of the mount
\* finds the collections empty and leaves them so.
checkAuth_call ==
    /\ isLoading /\ calls = << >>
    /\ IF token # NoToken
       THEN /\ calls' = << NewCall("checkAuth", token, NoRecipe, NoSaveData, NoItem) >>
            /\ UNCHANGED isLoading
       ELSE /\ isLoading' = FALSE
            /\ UNCHANGED calls
    /\ Log(NoEvent)
    /\ UNCHANGED << token, validTokens, minted, isLoggedIn, activeTab,
                    savedState, pantry, server, now >>

\* checkAuth after api.getProfile() resolved.
checkAuth_resolved(i) ==
    /\ Succeeds(i, "checkAuth")
    /\ isLoggedIn' = TRUE
    /\ activeTab' = "profile"
    /\ isLoading' = FALSE
    /\ UNCHANGED << token, validTokens, minted, server, now >>
    /\ useEffect_isLoggedIn(RemoveAt(calls, i))
    /\ Log(Event("checkAuth", "", "ok", "fulfilled", 0, 0))

\* Mutant of checkAuth_rejected: the token is left in storage.
checkAuth_rejected_keepingToken(i) ==
    /\ i \in 1..Len(calls) /\ calls[i].op = "checkAuth"
    /\ Failures(i) # {}
    /\ isLoading' = FALSE
    /\ calls' = RemoveAt(calls, i)
    /\ Log(Event("checkAuth", "", "failed", "fulfilled", 0, 0))
    /\ UNCHANGED << token, validTokens, minted, isLoggedIn, activeTab,
                    savedState, pantry, server, now >>

\* checkAuth's catch: any rejection removes the token.
checkAuth_rejected(i) ==
    /\ i \in 1..Len(calls) /\ calls[i].op = "checkAuth"
    /\ Failures(i) # {}
    /\ token' = NoToken
    /\ isLoading' = FALSE
    /\ calls' = RemoveAt(calls, i)
    /\ Log(Event("checkAuth", "", "failed", "fulfilled", 0, 0))
    /\ UNCHANGED << validTokens, minted, isLoggedIn, activeTab,
                    savedState, pantry, server, now >>

\* App.handleLogin: the callback LoginForm invokes after a successful login.
handleLogin ==
    /\ isLoggedIn' = TRUE
    /\ activeTab' = "profile"

\* LoginForm (rendered on the auth tab): a successful login stores the token
\* the server minted and calls onLogin.
LoginForm_submit ==
    /\ ~isLoading /\ activeTab = "auth"
    /\ minted < MaxLogins + 1
    /\ Len(calls) + 2 <= MaxInFlight
    /\ minted' = minted + 1
    /\ token' = minted + 1
    /\ validTokens' = validTokens \cup { minted + 1 }
    /\ handleLogin
    /\ useEffect_isLoggedIn(calls)
    /\ Log(Event("login", "", "ok", "fulfilled", 0, 0))
    /\ UNCHANGED << isLoading, server, now >>

\* App.handleTabChange.
handleTabChange(tab) ==
    /\ ~isLoading
    /\ isLoggedIn \/ tab \in { "auth", "recipes", "about" }
    /\ ~(tab = "auth" /\ isLoggedIn)
    /\ activeTab' = tab
    /\ Log(NoEvent)
    /\ UNCHANGED << token, validTokens, minted, isLoggedIn, isLoading,
                    savedState, pantry, server, calls, now >>

\* Mutant of handleLogout: the login flag is toggled instead of cleared.
handleLogout_toggling(cs) ==
    /\ isLoggedIn' = ~isLoggedIn
    /\ activeTab' = "auth"
    /\ calls' = cs
    /\ savedRecipes' = << >> /\ savedRecipeIds' = {} /\ pantry' = << >>

\* App.handleLogout, with the isLoggedIn effect it triggers; cs are the calls
\* the caller leaves in flight.
handleLogout(cs) ==
    /\ isLoggedIn' = FALSE
    /\ activeTab' = "auth"
    /\ useEffect_isLoggedIn(cs)

\* ProfileCard.handleLogout: the Logout button of the profile view.
ProfileCard_handleLogout ==
    /\ ~isLoading /\ activeTab = "profile"
    /\ token' = NoToken
    /\ handleLogout(calls)
    /\ Log(Event("logout", "button", "none", "none",
                 IF isLoggedIn THEN 1 ELSE 0, 0))
    /\ UNCHANGED << validTokens, minted, isLoading, server, now >>

\* ProfileCard's effect up to its await.  It runs when the card mounts and
\* again whenever App re-renders (onLogout is a new function each render).
fetchProfile_call ==
    /\ ~isLoading /\ activeTab = "profile"
    /\ Len(calls) < MaxInFlight
    /\ calls' = Append(calls, NewCall("fetchProfile", token, NoRecipe, NoSaveData, NoItem))
    /\ Log(NoEvent)
    /\ UNCHANGED << session, savedState, pantry, server, now >>

fetchProfile_resolved(i) ==
    /\ Succeeds(i, "fetchProfile")
    /\ calls' = RemoveAt(calls, i)
    /\ Log(Event("fetchProfile", "", "ok", "fulfilled", 0, 0))
    /\ UNCHANGED << session, savedState, pantry, server, now >>

\* err.message.includes('Invalid authentication')
includesInvalidAuthentication(m) == m = InvalidAuth

\* ProfileCard's catch: an invalid token logs out through onLogout, which is
\* App.handleLogout.
fetchProfile_rejected(i) ==
    /\ i \in 1..Len(calls) /\ calls[i].op = "fetchProfile"
    /\ \E m \in Failures(i) :
         IF includesInvalidAuthentication(m)
         THEN /\ handleLogout(RemoveAt(calls, i))
              /\ Log(Event("logout", "rejected", "failed", "fulfilled",
                           IF isLoggedIn THEN 1 ELSE 0, 0))
         ELSE /\ calls' = RemoveAt(calls, i)
              /\ Log(Event("fetchProfile", "", "failed", "fulfilled", 0, 0))
              /\ UNCHANGED << isLoggedIn, activeTab, savedState, pantry >>
    /\ UNCHANGED << token, validTokens, minted, isLoading, server, now >>

(* ----------------------------- environment ----------------------------- *)

\* The server stops accepting a token (expiry).
TokenExpires ==
    /\ \E t \in validTokens : validTokens' = validTokens \ { t }
    /\ UNCHANGED << token, minted, isLoggedIn, isLoading, activeTab,
                    savedState, pantry, server, calls, now >>
    /\ Log(NoEvent)

\* A millisecond passes.
Tick ==
    /\ now < MaxNow
    /\ now' = now + 1
    /\ UNCHANGED << session, savedState, pantry, server, calls >>
    /\ Log(NoEvent)


(* ------------------------ Saved-Recipe Reconciler ---------------------- *)

\* The saveData object of handleSaveRecipe: source and is_ai_generated are
\* derived from the presence of the is_ai_generated key.
saveData(recipe) ==
    [source |-> IF recipe.hasAiKey THEN "AI" ELSE "TheMealDB",
     is_ai_generated |-> IF recipe.hasAiKey THEN recipe.is_ai_generated ELSE FALSE]

\* `temp_${Date.now()}`
tempId(t) == [temp |-> TRUE, key |-> "", n |-> t]

\* The SavedRecipe handleSaveRecipe synthesizes after the save succeeded.
newSavedRecipe(recipe, data, t) ==
    [id |-> tempId(t), recipe_id |-> recipe.id, source |-> data.source,
     is_ai_generated |-> IF recipe.hasAiKey THEN recipe.is_ai_generated ELSE FALSE]

\* setSavedRecipes(prev => [newSavedRecipe, ...prev])
prependSaved(list, r) == << r >> \o list
\* Mutant of addSavedId: the id set is not updated by a save.
addSavedId_forgotten(ids, id) == ids
\* setSavedRecipeIds(prev => new Set([...prev, recipe.id]))
addSavedId(ids, id) == ids \cup { id }
\* Mutant of filterSaved: the filter compares the saved entry's own id.
filterSaved_byEntryId(list, recipeId) == SelectSeq(list, LAMBDA r : r.id.key # recipeId)
\* setSavedRecipes(prev => prev.filter(recipe => recipe.recipe_id !== recipeId))
filterSaved(list, recipeId) == SelectSeq(list, LAMBDA r : r.recipe_id # recipeId)
\* Mutant of deleteSavedId: the id stays in the set.
deleteSavedId_forgotten(ids, recipeId) == ids
\* newSet.delete(recipeId)
deleteSavedId(ids, recipeId) == ids \ { recipeId }
\* new Set(response.items.map(recipe => recipe.recipe_id))
recipeIdsOf(items) == { items[k].recipe_id : k \in 1..Len(items) }

\* Mutant of fetchSavedRecipes_resolved: the response is merged into the
\* local list instead of replacing it.
fetchSavedRecipes_resolved_merging(i) ==
    /\ Succeeds(i, "fetchSavedRecipes")
    /\ savedRecipes' = calls[i].res.items \o savedRecipes
    /\ savedRecipeIds' = savedRecipeIds \cup recipeIdsOf(calls[i].res.items)
    /\ calls' = RemoveAt(calls, i)
    /\ Log(Event("fetchSavedRecipes", "", "ok", "fulfilled", 0, 0))
    /\ UNCHANGED << session, pantry, server, now >>

fetchSavedRecipes_resolved(i) ==
    /\ Succeeds(i, "fetchSavedRecipes")
    /\ savedRecipes' = calls[i].res.items
    /\ savedRecipeIds' = recipeIdsOf(calls[i].res.items)
    /\ calls' = RemoveAt(calls, i)
    /\ Log(Event("fetchSavedRecipes", "", "ok", "fulfilled",
                 Count(savedRecipes, LAMBDA r :
                         \E k \in 1..Len(calls[i].res.items) :
                             calls[i].res.items[k] = r),
                 0))
    /\ UNCHANGED << session, pantry, server, now >>

\* The catch of fetchSavedRecipes logs the error and swallows it.
fetchSavedRecipes_rejected(i) ==
    /\ i \in 1..Len(calls) /\ calls[i].op = "fetchSavedRecipes"
    /\ Failures(i) # {}
    /\ calls' = RemoveAt(calls, i)
    /\ Log(Event("fetchSavedRecipes", "", "failed", "fulfilled", 0, 0))
    /\ UNCHANGED << session, savedState, pantry, server, now >>

\* handleSaveRecipe up to its await (the Recipes view offers it to a
\* logged-in user).
handleSaveRecipe_call(recipe) ==
    /\ ~isLoading /\ activeTab = "recipes" /\ isLoggedIn
    /\ Len(calls) < MaxInFlight
    /\ Len(savedRecipes) < MaxSaved
    /\ calls' = Append(calls, NewCall("handleSaveRecipe", token, recipe,
                                      saveData(recipe), NoItem))
    /\ Log(NoEvent)
    /\ UNCHANGED << session, savedState, pantry, server, now >>

handleSaveRecipe_resolved(i) ==
    /\ Succeeds(i, "handleSaveRecipe")
    /\ Len(savedRecipes) < MaxSaved
    /\ LET c == calls[i] IN
         /\ savedRecipes' = prependSaved(savedRecipes,
                                         newSavedRecipe(c.recipe, c.data, now))
         /\ savedRecipeIds' = addSavedId(savedRecipeIds, c.recipe.id)
         /\ Log(Event("handleSaveRecipe", c.recipe.id, "ok", "fulfilled",
                      Count(savedRecipes, LAMBDA r : r.recipe_id = c.recipe.id),
                      0))
    /\ calls' = RemoveAt(calls, i)
    /\ UNCHANGED << session, pantry, server, now >>

\* catch (error) { throw error }
handleSaveRecipe_rejected(i) ==
    /\ i \in 1..Len(calls) /\ calls[i].op = "handleSaveRecipe"
    /\ Failures(i) # {}
    /\ calls' = RemoveAt(calls, i)
    /\ Log(Event("handleSaveRecipe", calls[i].recipe.id, "failed", "rejected", 0, 0))
    /\ UNCHANGED << session, savedState, pantry, server, now >>

\* handleUnsaveRecipe up to its await: from the Recipes view for any recipe,
\* from the profile view for a recipe of the saved list.
handleUnsaveRecipe_call(recipeId) ==
    /\ ~isLoading /\ isLoggedIn
    /\ \/ activeTab = "recipes"
       \/ activeTab = "profile" /\ recipeId \in recipeIdsOf(savedRecipes)
    /\ Len(calls) < MaxInFlight
    /\ calls' = Append(calls, NewCall("handleUnsaveRecipe", token,
                                      [NoRecipe EXCEPT !.id = recipeId],
                                      NoSaveData, NoItem))
    /\ Log(NoEvent)
    /\ UNCHANGED << session, savedState, pantry, server, now >>

handleUnsaveRecipe_resolved(i) ==
    /\ Succeeds(i, "handleUnsaveRecipe")
    /\ savedRecipes' = filterSaved(savedRecipes, calls[i].recipe.id)
    /\ savedRecipeIds' = deleteSavedId(savedRecipeIds, calls[i].recipe.id)
    /\ calls' = RemoveAt(calls, i)
    /\ Log(Event("handleUnsaveRecipe", calls[i].recipe.id, "ok", "fulfilled",
                 Count(savedRecipes, LAMBDA r : r.recipe_id = calls[i].recipe.id),
                 0))
    /\ UNCHANGED << session, pantry, server, now >>

\* Mutant of handleUnsaveRecipe_rejected: the entry is removed locally
\* although the remote delete failed.
handleUnsaveRecipe_rejected_removing(i) ==
    /\ i \in 1..Len(calls) /\ calls[i].op = "handleUnsaveRecipe"
    /\ Failures(i) # {}
    /\ savedRecipes' = filterSaved(savedRecipes, calls[i].recipe.id)
    /\ savedRecipeIds' = deleteSavedId(savedRecipeIds, calls[i].recipe.id)
    /\ calls' = RemoveAt(calls, i)
    /\ Log(Event("handleUnsaveRecipe", calls[i].recipe.id, "failed", "rejected", 0, 0))
    /\ UNCHANGED << session, pantry, server, now >>

\* catch (error) { throw error }: nothing local was touched before the await.
handleUnsaveRecipe_rejected(i) ==
    /\ i \in 1..Len(calls) /\ calls[i].op = "handleUnsaveRecipe"
    /\ Failures(i) # {}
    /\ calls' = RemoveAt(calls, i)
    /\ Log(Event("handleUnsaveRecipe", calls[i].recipe.id, "failed", "rejected", 0, 0))
    /\ UNCHANGED << session, savedState, pantry, server, now >>

(* --------------------------- Pantry Synchronizer ----------------------- *)

\* mapPantryOut: PantryItemOut -> PantryItem
mapPantryOut(p) ==
    [name |-> p.name,
     quantity |-> IF p.quantity # "" THEN p.quantity ELSE "",
     expiryDate |-> IF p.expiry_date # NullDateTime
                    THEN slice10(p.expiry_date) ELSE NoDate]

fetchPantry_resolved(i) ==
    /\ Succeeds(i, "fetchPantry")
    /\ pantry' = Map(calls[i].res.items, mapPantryOut)
    /\ calls' = RemoveAt(calls, i)
    /\ Log(Event("fetchPantry", "", "ok", "fulfilled", Len(pantry), 0))
    /\ UNCHANGED << session, savedState, server, now >>

fetchPantry_rejected(i) ==
    /\ i \in 1..Len(calls) /\ calls[i].op = "fetchPantry"
    /\ Failures(i) # {}
    /\ calls' = RemoveAt(calls, i)
    /\ Log(Event("fetchPantry", "", "failed", "fulfilled", 0, 0))
    /\ UNCHANGED << session, savedState, pantry, server, now >>

\* addToPantry up to its await (offered by the Ingredients view).
addToPantry_call(name) ==
    /\ ~isLoading /\ activeTab = "ingredients"
    /\ Len(calls) < MaxInFlight
    /\ calls' = Append(calls, NewCall("addToPantry", token, NoRecipe, NoSaveData,
                   [name |-> name, quantity |-> "", expiry_date |-> NullDateTime]))
    /\ Log(NoEvent)
    /\ UNCHANGED << session, savedState, pantry, server, now >>

\* Mutant of addToPantryUpdate: the filter compares the names as written.
addToPantryUpdate_caseSensitive(list, name, saved) ==
    << mapPantryOut(saved) >> \o SelectSeq(list, LAMBDA it : it.name # name)

\* The updater of addToPantry: drop every entry of that name, whatever its
\* case, and put the server's item first.
addToPantryUpdate(list, name, saved) ==
    << mapPantryOut(saved) >> \o
    SelectSeq(list, LAMBDA it : toLowerCase(it.name) # toLowerCase(name))

addToPantry_resolved(i) ==
    /\ Succeeds(i, "addToPantry")
    /\ pantry' = addToPantryUpdate(pantry, calls[i].item.name, calls[i].res.item)
    /\ calls' = RemoveAt(calls, i)
    /\ Log(Event("addToPantry", calls[i].item.name, "ok", "fulfilled",
                 Count(pantry, LAMBDA it : toLowerCase(it.name) = toLowerCase(calls[i].item.name)),
                 Count(pantry, LAMBDA it : it.name = calls[i].item.name)))
    /\ UNCHANGED << session, savedState, server, now >>

addToPantry_rejected(i) ==
    /\ i \in 1..Len(calls) /\ calls[i].op = "addToPantry"
    /\ Failures(i) # {}
    /\ calls' = RemoveAt(calls, i)
    /\ Log(Event("addToPantry", calls[i].item.name, "failed", "rejected", 0, 0))
    /\ UNCHANGED << session, savedState, pantry, server, now >>

\* Partial<PantryItem> values the Pantry view passes: a quantity or an expiry
\* date.
QuantityUpdates ==
    { [hasQuantity |-> TRUE, quantity |-> q, hasExpiry |-> FALSE, expiryDate |-> NoDate] :
        q \in Quantities }
ExpiryUpdates ==
    { [hasQuantity |-> FALSE, quantity |-> "", hasExpiry |-> TRUE, expiryDate |-> d] :
        d \in Dates }

\* { ...current, ...updates } over pantry.find(i => i.name === name); a field
\* that neither has is undefined, carried here as '' / NoDate.
merged(list, name, updates) ==
    LET found == SelectSeq(list, LAMBDA it : it.name = name)
        current == IF found = << >>
                   THEN [name |-> "", quantity |-> "", expiryDate |-> NoDate]
                   ELSE Head(found)
    IN [quantity |-> IF updates.hasQuantity THEN updates.quantity
                     ELSE current.quantity,
        expiryDate |-> IF updates.hasExpiry THEN updates.expiryDate
                       ELSE current.expiryDate]

\* The PantryItemIn payload of updatePantryItem.
updatePayload(list, name, updates) ==
    LET m == merged(list, name, updates) IN
    [name |-> name,
     quantity |-> m.quantity,
     expiry_date |-> IF m.expiryDate # NoDate THEN toISOString(m.expiryDate)
                     ELSE NullDateTime]

\* updatePantryItem up to its await (offered by the Pantry view).
updatePantryItem_call(name, updates) ==
    /\ ~isLoading /\ activeTab = "pantry"
    /\ Len(calls) < MaxInFlight
    /\ calls' = Append(calls, NewCall("updatePantryItem", token, NoRecipe, NoSaveData,
                                      updatePayload(pantry, name, updates)))
    /\ Log(NoEvent)
    /\ UNCHANGED << session, savedState, pantry, server, now >>

\* setPantry(prev => prev.map(i => i.name === name ? mapPantryOut(saved) : i))
updatePantryUpdate(list, name, saved) ==
    Map(list, LAMBDA it : IF it.name = name THEN mapPantryOut(saved) ELSE it)

updatePantryItem_resolved(i) ==
    /\ Succeeds(i, "updatePantryItem")
    /\ pantry' = updatePantryUpdate(pantry, calls[i].item.name, calls[i].res.item)
    /\ calls' = RemoveAt(calls, i)
    /\ Log(Event("updatePantryItem", calls[i].item.name, "ok", "fulfilled",
                 Count(pantry, LAMBDA it : it.name = calls[i].item.name),
                 Count(pantry, LAMBDA it : it.name = calls[i].item.name)))
    /\ UNCHANGED << session, savedState, server, now >>

updatePantryItem_rejected(i) ==
    /\ i \in 1..Len(calls) /\ calls[i].op = "updatePantryItem"
    /\ Failures(i) # {}
    /\ calls' = RemoveAt(calls, i)
    /\ Log(Event("updatePantryItem", calls[i].item.name, "failed", "rejected", 0, 0))
    /\ UNCHANGED << session, savedState, pantry, server, now >>

\* removePantryItem up to its await (Ingredients and Pantry views).
removePantryItem_call(name) ==
    /\ ~isLoading /\ activeTab \in { "ingredients", "pantry" }
    /\ Len(calls) < MaxInFlight
    /\ calls' = Append(calls, NewCall("removePantryItem", token, NoRecipe, NoSaveData,
                                      [NoItem EXCEPT !.name = name]))
    /\ Log(NoEvent)
    /\ UNCHANGED << session, savedState, pantry, server, now >>

removePantryItem_resolved(i) ==
    /\ Succeeds(i, "removePantryItem")
    /\ pantry' = SelectSeq(pantry, LAMBDA it : it.name # calls[i].item.name)
    /\ calls' = RemoveAt(calls, i)
    /\ Log(Event("removePantryItem", calls[i].item.name, "ok", "fulfilled",
                 Count(pantry, LAMBDA it : it.name = calls[i].item.name),
                 Count(pantry, LAMBDA it : it.name = calls[i].item.name)))
    /\ UNCHANGED << session, savedState, server, now >>

removePantryItem_rejected(i) ==
    /\ i \in 1..Len(calls) /\ calls[i].op = "removePantryItem"
    /\ Failures(i) # {}
    /\ calls' = RemoveAt(calls, i)
    /\ Log(Event("removePantryItem", calls[i].item.name, "failed", "rejected", 0, 0))
    /\ UNCHANGED << session, savedState, pantry, server, now >>

(* ------------------------------ remote store --------------------------- *)

\* The server names the saved entry of a recipe after the recipe.
srvId(recipeId) == [temp |-> FALSE, key |-> recipeId, n |-> 0]

\* POST /recipes/{id}/save: one saved entry per recipe id.
SrvSave(list, recipe, data) ==
    IF recipe.id \in recipeIdsOf(list) THEN list
    ELSE Append(list, [id |-> srvId(recipe.id), recipe_id |-> recipe.id,
                       source |-> data.source,
                       is_ai_generated |-> data.is_ai_generated])

\* DELETE /users/me/saved/{recipe_id}
SrvUnsave(list, recipeId) == SelectSeq(list, LAMBDA r : r.recipe_id # recipeId)

\* PUT /pantry: create or replace by name, the name compared ignoring case.
SrvUpsert(list, item) ==
    Append(SelectSeq(list, LAMBDA it : toLowerCase(it.name) # toLowerCase(item.name)),
           item)

\* DELETE /pantry/{name}
SrvDeletePantry(list, name) ==
    SelectSeq(list, LAMBDA it : toLowerCase(it.name) # toLowerCase(name))

\* The server handles the request at position i, whose token it accepts, and
\* answers with success.
ServerHandle(i) ==
    /\ i \in 1..Len(calls)
    /\ calls[i].st = "sent"
    /\ calls[i].tok \in validTokens
    /\ LET c == calls[i] IN
         /\ srvSaved' =
              CASE c.op = "handleSaveRecipe" -> SrvSave(srvSaved, c.recipe, c.data)
                [] c.op = "handleUnsaveRecipe" -> SrvUnsave(srvSaved, c.recipe.id)
                [] OTHER -> srvSaved
         /\ srvPantry' =
              CASE c.op \in { "addToPantry", "updatePantryItem" } ->
                     SrvUpsert(srvPantry, c.item)
                [] c.op = "removePantryItem" -> SrvDeletePantry(srvPantry, c.item.name)
                [] OTHER -> srvPantry
         /\ calls' = [calls EXCEPT ![i] =
              [c EXCEPT !.st = "replied",
                        !.res = CASE c.op = "fetchSavedRecipes" ->
                                       [items |-> srvSaved, item |-> NoItem]
                                  [] c.op = "fetchPantry" ->
                                       [items |-> srvPantry, item |-> NoItem]
                                  [] c.op \in { "addToPantry", "updatePantryItem" } ->
                                       [items |-> << >>, item |-> c.item]
                                  [] OTHER -> NoBody]]
    /\ UNCHANGED << session, savedState, pantry, now >>
    /\ Log(NoEvent)

(* ------------------------------ specification -------------------------- *)

Init ==
    /\ token \in { NoToken, 1 }
    /\ minted = token
    /\ validTokens \in SUBSET ({ token } \ { NoToken })
    /\ isLoggedIn = FALSE
    /\ isLoading = TRUE
    /\ activeTab = "auth"
    /\ savedRecipes = << >>
    /\ savedRecipeIds = {}
    /\ pantry = << >>
    /\ srvSaved = << >>
    /\ srvPantry = << >>
    /\ calls = << >>
    /\ now = 0
    /\ last = NoEvent

\* The session gatekeeper, the hydration every login starts, the remote store
\* and the environment.
NextSession ==
    \/ checkAuth_call
    \/ \E i \in 1..MaxInFlight : checkAuth_resolved(i)
    \/ \E i \in 1..MaxInFlight : checkAuth_rejected(i)
    \/ LoginForm_submit
    \/ ProfileCard_handleLogout
    \/ fetchProfile_call
    \/ \E i \in 1..MaxInFlight : fetchProfile_resolved(i)
    \/ \E i \in 1..MaxInFlight : fetchProfile_rejected(i)
    \/ \E i \in 1..MaxInFlight : fetchSavedRecipes_resolved(i)
    \/ \E i \in 1..MaxInFlight : fetchSavedRecipes_rejected(i)
    \/ \E i \in 1..MaxInFlight : fetchPantry_resolved(i)
    \/ \E i \in 1..MaxInFlight : fetchPantry_rejected(i)
    \/ \E i \in 1..MaxInFlight : ServerHandle(i)
    \/ TokenExpires

\* The user's saved-recipe operations.
NextSaved ==
    \/ \E r \in RecipeInputs : handleSaveRecipe_call(r)
    \/ \E i \in 1..MaxInFlight : handleSaveRecipe_resolved(i)
    \/ \E i \in 1..MaxInFlight : handleSaveRecipe_rejected(i)
    \/ \E id \in RecipeIds : handleUnsaveRecipe_call(id)
    \/ \E i \in 1..MaxInFlight : handleUnsaveRecipe_resolved(i)
    \/ \E i \in 1..MaxInFlight : handleUnsaveRecipe_rejected(i)
    \/ \E tab \in { "auth", "profile", "recipes" } : handleTabChange(tab)

\* The user's pantry operations.
NextPantry ==
    \/ \E n \in Names : addToPantry_call(n)
    \/ \E i \in 1..MaxInFlight : addToPantry_resolved(i)
    \/ \E i \in 1..MaxInFlight : addToPantry_rejected(i)
    \/ \E n \in Names, u \in QuantityUpdates : updatePantryItem_call(n, u)
    \/ \E i \in 1..MaxInFlight : updatePantryItem_resolved(i)
    \/ \E i \in 1..MaxInFlight : updatePantryItem_rejected(i)
    \/ \E n \in Names : removePantryItem_call(n)
    \/ \E i \in 1..MaxInFlight : removePantryItem_resolved(i)
    \/ \E i \in 1..MaxInFlight : removePantryItem_rejected(i)
    \/ \E tab \in { "auth", "profile", "ingredients", "pantry" } : handleTabChange(tab)

\* A session in which the user works on saved recipes.
Spec == Init /\ [][NextSession \/ NextSaved]_vars

\* The same with the millisecond clock running between the steps.
SpecClock == Init /\ [][NextSession \/ NextSaved \/ Tick]_vars

\* Saves of every kind of record.
NextRecords ==
    \/ \E r \in RecipeRecords : handleSaveRecipe_call(r)
    \/ \E i \in 1..MaxInFlight : handleSaveRecipe_resolved(i)
    \/ \E i \in 1..MaxInFlight : handleSaveRecipe_rejected(i)
    \/ \E tab \in { "auth", "profile", "recipes" } : handleTabChange(tab)

\* A session in which the user saves records of every kind.
SpecRecords == Init /\ [][NextSession \/ NextRecords]_vars

\* A session in which the user works on the pantry.
SpecPantry == Init /\ [][NextSession \/ NextPantry]_vars

\* Updates of one pantry item, by quantity or by expiry date.
NextMerge ==
    \/ addToPantry_call("Eggs")
    \/ \E i \in 1..MaxInFlight : addToPantry_resolved(i)
    \/ \E i \in 1..MaxInFlight : addToPantry_rejected(i)
    \/ \E u \in QuantityUpdates \cup ExpiryUpdates : updatePantryItem_call("Eggs", u)
    \/ \E i \in 1..MaxInFlight : updatePantryItem_resolved(i)
    \/ \E i \in 1..MaxInFlight : updatePantryItem_rejected(i)
    \/ \E tab \in { "auth", "profile", "ingredients", "pantry" } : handleTabChange(tab)

\* A session in which the user edits one pantry item.
SpecMerge == Init /\ [][NextSession \/ NextMerge]_vars

\* Startup and the session alone: the user only logs in, looks at the profile
\* and logs out.  Every request the transport carries settles, and the event
\* loop runs the continuation of a settled request.
NextStartup ==
    \/ NextSession
    \/ \E tab \in { "auth", "profile", "recipes" } : handleTabChange(tab)

SpecStartup ==
    /\ Init
    /\ [][NextStartup]_vars
    /\ WF_vars(checkAuth_call)
    /\ WF_vars(\E i \in 1..MaxInFlight : checkAuth_resolved(i) \/ checkAuth_rejected(i))

(* ================================ claims =============================== *)

\* The step completes handler op with its request succeeding / failing.
Completes(op, req) == last'.op = op /\ last'.req = req
\* The local saved list holds an entry that a successful save synthesized
\* for recipe id r (only handleSaveRecipe makes temp ids).
SavedLocally(r) ==
    \E k \in 1..Len(savedRecipes) :
        savedRecipes[k].recipe_id = r /\ savedRecipes[k].id.temp

\* C1 (as stated): a successful save makes isSaved(recipe.id) true at once,
\* and an id saved that way leaves the saved-id set only by a successful
\* unsave of that id or by a hydrate whose response omits it.
C1_SavedUntilUnsaveOrHydrate ==
    [][ /\ Completes("handleSaveRecipe", "ok") => last'.arg \in savedRecipeIds'
        /\ \A r \in RecipeIds :
             (SavedLocally(r) /\ r \in savedRecipeIds /\ r \notin savedRecipeIds')
             => \/ Completes("handleUnsaveRecipe", "ok") /\ last'.arg = r
                \/ Completes("fetchSavedRecipes", "ok") ]_vars

\* C1 (amended): a successful save makes isSaved(recipe.id) true at once, and
\* an id leaves the saved-id set only by a successful unsave of that id, by a
\* hydrate whose response omits it, or by a logout that ends the session.
C1_SavedUntilUnsaveHydrateOrLogout ==
    [][ /\ Completes("handleSaveRecipe", "ok") => last'.arg \in savedRecipeIds'
        /\ \A r \in RecipeIds :
             (r \in savedRecipeIds /\ r \notin savedRecipeIds')
             => \/ Completes("handleUnsaveRecipe", "ok") /\ last'.arg = r
                \/ /\ Completes("fetchSavedRecipes", "ok")
                   /\ r \notin recipeIdsOf(savedRecipes')
                \/ last'.op = "logout" /\ isLoggedIn /\ ~isLoggedIn' ]_vars

\* C1 witness: a save of r1 has just succeeded and r1 is in the saved-id set.
C1_Witness ==
    /\ last.op = "handleSaveRecipe" /\ last.req = "ok" /\ last.arg = "r1"
    /\ "r1" \in savedRecipeIds
    /\ SavedLocally("r1")

\* C2: while logged out, the saved-recipe list, the saved-id set and the
\* pantry are empty (also after a request that was in flight at the logout
\* completes).
C2_EmptyWhileLoggedOut ==
    ~isLoggedIn => savedRecipes = << >> /\ savedRecipeIds = {} /\ pantry = << >>

\* C3: an unsave whose remote delete fails leaves the saved list and the
\* saved-id set as they were and rejects the promise it returned; issuing the
\* unsave request changes nothing locally either.
C3_FailedUnsaveChangesNothing ==
    [][ /\ Completes("handleUnsaveRecipe", "failed")
           => UNCHANGED << savedRecipes, savedRecipeIds >> /\ last'.promise = "rejected"
        /\ ( /\ Len(calls') = Len(calls) + 1
             /\ calls'[Len(calls')].op = "handleUnsaveRecipe" )
           => UNCHANGED << savedRecipes, savedRecipeIds >> ]_vars

\* C3 witness: an unsave of a saved recipe has just failed and the recipe is
\* still in the list and in the id set.
C3_Witness ==
    /\ last.op = "handleUnsaveRecipe" /\ last.req = "failed"
    /\ last.arg \in savedRecipeIds
    /\ last.arg \in recipeIdsOf(savedRecipes)

\* C4: a hydrate that succeeds leaves exactly the response's list and the
\* recipe ids of that list, whatever the local state was; so a second hydrate
\* with the same response leaves what the first one left.
C4_HydrateReplaces ==
    [][ Completes("fetchSavedRecipes", "ok") =>
          \E i \in 1..Len(calls) :
             /\ calls[i].op = "fetchSavedRecipes" /\ calls[i].st = "replied"
             /\ calls' = RemoveAt(calls, i)
             /\ savedRecipes' = calls[i].res.items
             /\ savedRecipeIds' = recipeIdsOf(calls[i].res.items) ]_vars

\* C4 witness: a hydrate has just completed over a local list that already
\* held every entry of its response (an earlier hydrate had put them there).
C4_Witness ==
    /\ last.op = "fetchSavedRecipes" /\ last.req = "ok"
    /\ Len(savedRecipes) >= 1
    /\ last.hit = Len(savedRecipes)

\* The local pantry entries whose name is n when case is ignored.
EntriesNamed(list, n) == Count(list, LAMBDA it : toLowerCase(it.name) = toLowerCase(n))

\* C5: after a successful addToPantry(name) the pantry starts with the item
\* the server confirmed and holds exactly one entry of that name, case
\* ignored (whether or not an entry of that name in another case existed).
C5_AddToPantryCaseInsensitive ==
    [][ Completes("addToPantry", "ok") =>
          \E i \in 1..Len(calls) :
             /\ calls[i].op = "addToPantry" /\ calls[i].st = "replied"
             /\ calls[i].item.name = last'.arg
             /\ calls' = RemoveAt(calls, i)
             /\ Len(pantry') >= 1
             /\ pantry'[1] = mapPantryOut(calls[i].res.item)
             /\ EntriesNamed(pantry', last'.arg) = 1 ]_vars

\* C5 witness: an addToPantry has just succeeded for a name the pantry held
\* in another case only, and the pantry holds one entry.
C5_Witness ==
    /\ last.op = "addToPantry" /\ last.req = "ok"
    /\ last.hit = 1 /\ last.exact = 0
    /\ Len(pantry) = 1 /\ pantry[1].name = last.arg

\* C6: after a successful upsert that carries a quantity, under a name that
\* differs only in case from an existing entry, the pantry holds exactly one
\* entry of that name (case ignored): the item the server confirmed, with
\* the server's name and the quantity sent.
C6_QuantityUpsertReplaces ==
    [][ ( /\ Completes("updatePantryItem", "ok")
          /\ \E k \in 1..Len(pantry) :
                /\ toLowerCase(pantry[k].name) = toLowerCase(last'.arg)
                /\ pantry[k].name # last'.arg )
        => \E i \in 1..Len(calls) :
             /\ calls[i].op = "updatePantryItem" /\ calls[i].st = "replied"
             /\ calls[i].item.name = last'.arg
             /\ calls' = RemoveAt(calls, i)
             /\ EntriesNamed(pantry', last'.arg) = 1
             /\ \E k \in 1..Len(pantry') :
                   /\ pantry'[k] = mapPantryOut(calls[i].res.item)
                   /\ pantry'[k].quantity = calls[i].item.quantity ]_vars

\* C7: a successful save of a recipe that is not saved puts its id in the
\* saved-id set and makes the list one longer, and removing that id again
\* gives back the list and the id set of before the save; a successful unsave
\* removes the id from the set and every entry of that recipe from the list,
\* and nothing else.
C7_SaveUnsaveRoundTrip ==
    [][ /\ ( Completes("handleSaveRecipe", "ok") /\ last'.arg \notin savedRecipeIds )
           => /\ last'.arg \in savedRecipeIds'
              /\ Len(savedRecipes') = Len(savedRecipes) + 1
              /\ SelectSeq(savedRecipes', LAMBDA r : r.recipe_id # last'.arg)
                    = savedRecipes
              /\ savedRecipeIds' \ { last'.arg } = savedRecipeIds
        /\ Completes("handleUnsaveRecipe", "ok")
           => /\ last'.arg \notin savedRecipeIds'
              /\ savedRecipes'
                    = SelectSeq(savedRecipes, LAMBDA r : r.recipe_id # last'.arg)
              /\ savedRecipeIds' = savedRecipeIds \ { last'.arg } ]_vars

\* C7 witness: an unsave has just succeeded that removed the one entry of its
\* recipe, and the list and the id set are empty again.
C7_Witness ==
    /\ last.op = "handleUnsaveRecipe" /\ last.req = "ok" /\ last.hit = 1
    /\ savedRecipes = << >> /\ savedRecipeIds = {}

\* The checkAuth requests in flight.
ProfileChecks(cs) == Count(cs, LAMBDA c : c.op = "checkAuth")

\* C8: the startup check requests the profile once, and only when a token is
\* stored; when the request succeeds the session is logged in, when it fails
\* in any way the token is removed and the session stays logged out; with no
\* token no request is made and the session stays logged out; startup ends
\* in every case (isLoading becomes false).
C8_StartupValidation ==
    /\ [][ /\ ProfileChecks(calls') > ProfileChecks(calls)
              => /\ isLoading /\ token # NoToken /\ calls = << >>
                 /\ ProfileChecks(calls') = 1
           /\ Completes("checkAuth", "ok")
              => isLoggedIn' /\ ~isLoading' /\ token' = token
           /\ Completes("checkAuth", "failed")
              => token' = NoToken /\ ~isLoggedIn' /\ ~isLoading'
           /\ ( isLoading /\ token = NoToken )
              => calls' = << >> /\ ~isLoggedIn' /\ ~isLoading'
           /\ ~isLoading => ~isLoading' /\ ProfileChecks(calls') = 0 ]_vars
    /\ <>(~isLoading)

\* C8 witness: the startup check has just failed; the token is gone, the
\* session is logged out and startup has ended.
C8_Witness ==
    /\ last.op = "checkAuth" /\ last.req = "failed"
    /\ token = NoToken /\ ~isLoggedIn /\ ~isLoading

\* C9: when the session has just been demoted because the server rejected
\* the token, no token is left in storage and the saved-recipe list, the
\* saved-id set and the pantry are empty.
C9_RejectedSessionDiscarded ==
    ( last.op = "logout" /\ last.arg = "rejected" )
    => /\ token = NoToken
       /\ savedRecipes = << >> /\ savedRecipeIds = {} /\ pantry = << >>

\* C10: a logout issues no request and leaves the session logged out on the
\* auth view; a logout of an open session empties the collections, and a
\* logout when already logged out changes neither the token storage, the
\* login flag nor the collections.
C10_LogoutIdempotentLocal ==
    [][ last'.op = "logout" =>
          /\ Len(calls') <= Len(calls)
          /\ \A k \in 1..Len(calls') : \E j \in 1..Len(calls) : calls[j] = calls'[k]
          /\ ~isLoggedIn' /\ activeTab' = "auth"
          /\ isLoggedIn
             => savedRecipes' = << >> /\ savedRecipeIds' = {} /\ pantry' = << >>
          /\ ~isLoggedIn
             => UNCHANGED << token, isLoggedIn, savedRecipes, savedRecipeIds, pantry >> ]_vars

\* C10 witness: a logout has just run while the session was already logged
\* out.
C10_Witness ==
    /\ last.op = "logout" /\ last.hit = 0
    /\ ~isLoggedIn /\ activeTab = "auth"

\* C11: no two entries of the local saved-recipe list have the same
\* recipe_id (the server's list never holds a recipe id twice).
C11_RecipeIdUnique ==
    \A j, k \in 1..Len(savedRecipes) :
        j # k => savedRecipes[j].recipe_id # savedRecipes[k].recipe_id

\* The record carries is_ai_generated with a truthy value.
Truthy(recipe) == recipe.hasAiKey /\ recipe.is_ai_generated

\* C12: every save request has source "AI" exactly when the record carries a
\* truthy is_ai_generated and "TheMealDB" otherwise, and its is_ai_generated
\* is the record's value or false when the record has none; the entry
\* synthesized locally carries the same source and flag (so its source is
\* "AI" exactly when its flag is true).
C12_SourceFromTruthiness ==
    /\ \A i \in 1..Len(calls) :
          calls[i].op = "handleSaveRecipe"
          => /\ calls[i].data.source
                  = IF Truthy(calls[i].recipe) THEN "AI" ELSE "TheMealDB"
             /\ calls[i].data.is_ai_generated = Truthy(calls[i].recipe)
    /\ \A k \in 1..Len(savedRecipes) :
          savedRecipes[k].id.temp
          => ( savedRecipes[k].source = "AI" <=> savedRecipes[k].is_ai_generated )

\* C13: whatever the transport does with a request in flight, a failure
\* settles the promise with one error: a non-success response with the
\* response's detail (a generic message when the detail is empty), a failure
\* of the transport call itself with the message "Network error"; a failure
\* never resolves the promise.
C13_FailuresNormalized ==
    \A i \in 1..Len(calls) : \A t \in Transport(calls[i]) :
       /\ t.kind = "throw" => request(t) = Rejected("Network error")
       /\ ( t.kind = "response" /\ ~t.ok )
          => request(t) = Rejected(IF t.detail # "" THEN t.detail ELSE "Request failed")

\* C14: in every state the saved-id set is exactly the set of recipe_id
\* values of the entries of the saved-recipe list.
C14_IdSetMatchesList == savedRecipeIds = recipeIdsOf(savedRecipes)

\* C14 witness: an unsave has just removed one recipe's entry while another
\* recipe is still saved.
C14_Witness ==
    /\ last.op = "handleUnsaveRecipe" /\ last.req = "ok" /\ last.hit = 1
    /\ savedRecipes # << >>
    /\ last.arg \notin savedRecipeIds

\* The handlers a user action starts.
UserOps == { "handleSaveRecipe", "handleUnsaveRecipe", "addToPantry",
             "updatePantryItem", "removePantryItem" }

\* C15: user actions complete in call order: when the continuation of a user
\* action applies its local change, no user action triggered before it is
\* still waiting for its response (calls holds the requests in call order).
C15_CompleteInCallOrder ==
    [][ \A i \in 1..Len(calls) :
          ( /\ calls[i].op \in UserOps
            /\ Completes(calls[i].op, "ok")
            /\ calls' = RemoveAt(calls, i) )
          => \A j \in 1..(i - 1) :
                calls[j].op \in UserOps => calls[j] = calls[i] ]_vars

\* The updatePantryItem requests in flight for the item named n, in call
\* order.
UpdatesInFlight(n) ==
    SelectSeq(calls, LAMBDA c : c.op = "updatePantryItem" /\ c.item.name = n)

\* C16: an update of an existing item that names only the expiry date sends
\* the quantity of the local entry of that name, and so does not undo a
\* quantity on the server: when an earlier update of the item is still in
\* flight, the quantity sent is the one that update is setting.
C16_PartialUpdatePreserves ==
    [][ \A n \in Names : \A u \in ExpiryUpdates :
          ( /\ calls' = Append(calls, NewCall("updatePantryItem", token, NoRecipe,
                                              NoSaveData, updatePayload(pantry, n, u)))
            /\ \E k \in 1..Len(pantry) : pantry[k].name = n )
          => LET sent == calls'[Len(calls')].item
                 earlier == UpdatesInFlight(n)
             IN /\ \E k \in 1..Len(pantry) :
                      pantry[k].name = n /\ sent.quantity = pantry[k].quantity
                /\ earlier # << >>
                   => sent.quantity = earlier[Len(earlier)].item.quantity ]_vars

\* C17: no two entries of the local saved-recipe list have the same id
\* (savedId): the temporary ids of the saves made between two hydrates
\* differ from each other and from the server's ids.
C17_SavedIdUnique ==
    \A j, k \in 1..Len(savedRecipes) :
        j # k => savedRecipes[j].id # savedRecipes[k].id

====
